---- MODULE Spec2Model ----
(***************************************************************************)
(* A model of the Grid widget of src/native/grid.rs: its construction and  *)
(* append operations, the two layout algorithms (Columns / ColumnWidth)    *)
(* with the shared build_grid placement routine, event forwarding, draw    *)
(* and identity hashing.                                                   *)
(*                                                                         *)
(* Lengths are f32 in the source; the model uses small naturals, on which  *)
(* the f32 operations used (max, +, *, /, floor) are exact.  The two       *)
(* non-finite results of the division max_width / column_width (a zero     *)
(* divisor) are modelled by what the saturating cast `as usize` makes of   *)
(* them.                                                                   *)
(***************************************************************************)
EXTENDS Integers, Sequences, FiniteSets, TLC

\* ------------------------------------------------------------------ bounds
MaxElems == 3
MaxSize == 1
MaxColumns == 2
MaxColumnWidth == 2
MaxAvail == 3

\* usize::MAX, the value a cast of +inf `as usize` saturates to.  The code
\* only ever compares it with element indices and multiplies it by 0.0, so
\* it is represented by the largest integer of TLC's 32-bit arithmetic.
UsizeMax == 2147483647

\* ------------------------------------------------------------------ state
VARIABLES
    strategy,   \* Grid.strategy
    elements,   \* Grid.elements
    call,       \* the operation that ran last, with its arguments
    ret,        \* what that operation returned
    ctor,       \* history: the strategy the constructor was given
    pushed      \* history: the elements handed to push / insert, in call order

vars == <<strategy, elements, call, ret, ctor, pushed>>

Min(a, b) == IF a <= b THEN a ELSE b
Max(a, b) == IF a >= b THEN a ELSE b

\* enum Strategy
Columns(n) == [tag |-> "Columns", n |-> n]
ColumnWidth(w) == [tag |-> "ColumnWidth", w |-> w]
Strategies ==
    {Columns(n) : n \in 0..MaxColumns} \cup {ColumnWidth(w) : w \in 0..MaxColumnWidth}

\* A child element is opaque to the grid: all the grid sees of it is the size
\* its layout reports, the status its on_event reports and what it hashes.
Sizes == 0..MaxSize
SizedElements == [w : Sizes, h : Sizes, cap : {FALSE}]
EventElements == [w : {1}, h : {1}, cap : BOOLEAN]

\* layout::Limits, as far as the grid reads it: the width bounds.
Limits(maxw) == [minw |-> 0, maxw |-> maxw]
AllLimits == {Limits(a) : a \in 0..MaxAvail}

\* Mutant of LimitsWidth: the limits are handed on as they came.
LimitsWidth_Unchanged(limits, w) == limits

\* limits.width(Length::Units(w)): both width bounds become w clamped into
\* the bounds the limits already had.
LimitsWidth(limits, w) ==
    LET nw == Max(Min(w, limits.maxw), limits.minw)
    IN  [minw |-> nw, maxw |-> nw]

\* element.layout(renderer, limits).size(): the child reports its size.
ElementLayout(e, limits) == [w |-> e.w, h |-> e.h]

Size(w, h) == [w |-> w, h |-> h]
SizeZERO == Size(0, 0)
\* Node::new(size) followed by move_to(Point::new(x, y))
NodeAt(size, x, y) == [x |-> x, y |-> y, w |-> size.w, h |-> size.h]
\* Node::with_children(size, nodes); `measured` lists, per child layout call
\* made during the pass, the limits the child was given.
NodeWithChildren(size, nodes, measured) ==
    [size |-> size, children |-> nodes, measured |-> measured]
\* Node::new(Size::ZERO)
NodeNew(size) == NodeWithChildren(size, <<>>, <<>>)

\* ------------------------------------------------------------- build_grid
\* (0..columns).zip(column_aligns): as long as the shorter of the two.
ZipLen(columns, column_aligns) == Min(columns, Len(column_aligns))

RECURSIVE BuildLoop(_, _, _, _, _, _, _)
\* The for loop of build_grid from layout i on: the cycle over the zipped
\* (column, column_align) pairs is indexed by (i - 1) % zl.
BuildLoop(zl, column_aligns, layouts, i, nodes, grid_height, row_height) ==
    IF zl = 0 \/ i > Len(layouts)
    THEN [nodes |-> nodes, grid_height |-> grid_height, row_height |-> row_height]
    ELSE LET column == (i - 1) % zl
             column_align == column_aligns[column + 1]
             gh == IF column = 0 THEN grid_height + row_height ELSE grid_height
             rh == IF column = 0 THEN 0 ELSE row_height
             node == NodeAt(layouts[i], column_align, gh)
         IN  BuildLoop(zl, column_aligns, layouts, i + 1,
                       Append(nodes, node), gh, Max(rh, layouts[i].h))

\* How many of the layouts the zip pulls: none when the cycle is empty
\* (Zip asks its left side first), all of them otherwise.
Pulled(zl, layouts) == IF zl = 0 THEN 0 ELSE Len(layouts)

\* Mutant of build_grid: the height of the last row is not added.
build_grid_NoLastRow(columns, column_aligns, layouts, grid_width, child_limits) ==
    LET zl == ZipLen(columns, column_aligns)
        end == BuildLoop(zl, column_aligns, layouts, 1, <<>>, 0, 0)
    IN  NodeWithChildren(Size(grid_width, end.grid_height), end.nodes,
                         [i \in 1..Pulled(zl, layouts) |-> child_limits])

build_grid(columns, column_aligns, layouts, grid_width, child_limits) ==
    LET zl == ZipLen(columns, column_aligns)
        end == BuildLoop(zl, column_aligns, layouts, 1, <<>>, 0, 0)
        grid_height == end.grid_height + end.row_height
    IN  NodeWithChildren(Size(grid_width, grid_height), end.nodes,
                         [i \in 1..Pulled(zl, layouts) |-> child_limits])

\* ---------------------------------------------------------- Grid::layout
\* Mutant of ColumnMax: the column takes the width of its latest child.
ColumnMax_Latest(column_width, width) == width

\* *column_width = column_width.max(layout.width)
ColumnMax(column_width, width) == Max(column_width, width)

RECURSIVE ColumnWidthsLoop(_, _, _, _)
\* The measuring loop of the Columns branch from element i on.
ColumnWidthsLoop(columns, layouts, i, column_widths) ==
    IF i > Len(layouts) THEN column_widths
    ELSE LET column == (i - 1) % columns
             width == layouts[i].w
         IN  ColumnWidthsLoop(columns, layouts, i + 1,
                 IF column < Len(column_widths)
                 THEN [column_widths EXCEPT ![column + 1] = ColumnMax(@, width)]
                 ELSE Append(column_widths, width))

RECURSIVE SeqSum(_)
SeqSum(s) == IF s = <<>> THEN 0 ELSE s[1] + SeqSum(Tail(s))

\* Mutant of ScanAligns: the running sums without the leading 0.
ScanAligns_NoZero(column_widths) ==
    [j \in 1..Len(column_widths) |-> SeqSum(SubSeq(column_widths, 1, j))]

\* once(&0.).chain(column_widths.iter()).scan(0., ...): the running sums,
\* starting with 0.
ScanAligns(column_widths) ==
    [j \in 1..(Len(column_widths) + 1) |-> SeqSum(SubSeq(column_widths, 1, j - 1))]

\* successors(Some(0.), |width| Some(width + column_width)): 0, w, 2w, ...
\* The sequence is endless; zipped with 0..columns and driven by the
\* layouts, no more than min(columns, #layouts) of it is ever generated.
SuccessorAligns(column_width, columns, k) ==
    [j \in 1..Min(columns, k) |-> (j - 1) * column_width]

\* Mutant of FloorDivAsUsize: the quotient is rounded up.
FloorDivAsUsize_Ceil(max_width, column_width) ==
    IF column_width = 0
    THEN IF max_width = 0 THEN 0 ELSE UsizeMax
    ELSE (max_width + column_width - 1) \div column_width

\* (max_width / column_width).floor() as usize
FloorDivAsUsize(max_width, column_width) ==
    IF column_width = 0
    THEN IF max_width = 0 THEN 0 ELSE UsizeMax   \* NaN casts to 0, +inf saturates
    ELSE max_width \div column_width

\* Mutant of GridWidthOf: the column count is not multiplied by the width.
GridWidthOf_Columns(columns, column_width) == columns

\* (columns as f32) * column_width
GridWidthOf(columns, column_width) == columns * column_width

LayoutColumns(columns, elems, limits) ==
    IF columns = 0 THEN NodeNew(SizeZERO)
    ELSE LET layouts == [i \in 1..Len(elems) |-> ElementLayout(elems[i], limits)]
             column_widths == ColumnWidthsLoop(columns, layouts, 1, <<>>)
             column_aligns == ScanAligns(column_widths)
             grid_width == SeqSum(column_widths)
         IN  build_grid(columns, column_aligns, layouts, grid_width, limits)

LayoutColumnWidth(w, elems, limits) ==
    LET column_limits == LimitsWidth(limits, w)
        columns == FloorDivAsUsize(limits.maxw, w)
        layouts == [i \in 1..Len(elems) |-> ElementLayout(elems[i], column_limits)]
        column_aligns == SuccessorAligns(w, columns, Len(elems))
        grid_width == GridWidthOf(columns, w)
    IN  build_grid(columns, column_aligns, layouts, grid_width, column_limits)

layout(strat, elems, limits) ==
    IF elems = <<>> THEN NodeNew(SizeZERO)
    ELSE IF strat.tag = "Columns" THEN LayoutColumns(strat.n, elems, limits)
    ELSE LayoutColumnWidth(strat.w, elems, limits)

\* ------------------------------------------------------------- operations
None == [none |-> TRUE]

\* Mutant of VecPush: the element goes to the front.
VecPush_Front(v, e) == <<e>> \o v

\* Vec::push
VecPush(v, e) == Append(v, e)

Init ==
    /\ strategy \in Strategies
    /\ elements = <<>>
    /\ call = [op |-> "new"]
    /\ ret = None
    /\ ctor = strategy
    /\ pushed = <<>>

Push(E) ==
    \E e \in E :
        /\ Len(elements) < MaxElems
        /\ elements' = VecPush(elements, e)
        /\ pushed' = Append(pushed, e)
        /\ call' = [op |-> "push"]
        /\ ret' = None
        /\ UNCHANGED <<strategy, ctor>>

Insert(E) ==
    \E e \in E :
        /\ Len(elements) < MaxElems
        /\ elements' = VecPush(elements, e)
        /\ pushed' = Append(pushed, e)
        /\ call' = [op |-> "insert"]
        /\ ret' = None
        /\ UNCHANGED <<strategy, ctor>>

Layout ==
    \E limits \in AllLimits :
        /\ call' = [op |-> "layout", limits |-> limits]
        /\ ret' = layout(strategy, elements, limits)
        /\ UNCHANGED <<strategy, elements, ctor, pushed>>

\* ----------------------------------------------------------- Grid::on_event
Ignored == "Ignored"
Captured == "Captured"

\* event::Status::merge
Merge(a, b) == IF a = Captured THEN Captured ELSE b

\* child.on_event(...): the child reports whether it captured the event.
ChildOnEvent(e) == IF e.cap THEN Captured ELSE Ignored

\* Mutant of ZipChildren: every element is visited, whatever the layout holds.
ZipChildren_AllElements(elems, lay) == Len(elems)

\* self.elements.iter_mut().zip(layout.children()): the pairs, as indices.
ZipChildren(elems, lay) == Min(Len(elems), Len(lay.children))

\* Mutant of ChildrenStatus: forwarding stops at the first child that captures.
ChildrenStatus_ShortCircuit(elems, lay) ==
    LET n == Min(Len(elems), Len(lay.children))
        caps == {i \in 1..n : elems[i].cap}
        last == IF caps = {} THEN n ELSE CHOOSE i \in caps : \A j \in caps : i <= j
    IN  [i \in 1..last |-> ChildOnEvent(elems[i])]

\* .map(|(child, layout)| child.on_event(...)).collect(): every pair is
\* visited.
ChildrenStatus(elems, lay) ==
    [i \in 1..ZipChildren(elems, lay) |-> ChildOnEvent(elems[i])]

RECURSIVE Fold(_, _)
\* children_status.into_iter().fold(acc, event::Status::merge)
Fold(acc, statuses) ==
    IF statuses = <<>> THEN acc
    ELSE Fold(Merge(acc, Head(statuses)), Tail(statuses))

on_event(elems, lay) ==
    LET children_status == ChildrenStatus(elems, lay)
    IN  [received |-> [i \in 1..Len(children_status) |-> i],
         reported |-> children_status,
         status |-> Fold(Ignored, children_status)]

\* -------------------------------------------------------- Grid::hash_layout
\* element.hash_layout(state): what the child feeds the hasher.
ChildHash(e) == e

\* The hasher's input: TypeId::of::<Marker>(), then every child's input.
hash_layout(strat, elems) ==
    <<"Marker">> \o [i \in 1..Len(elems) |-> ChildHash(elems[i])]

\* --------------------------------------------------------------- Grid::draw
\* renderer.draw(defaults, layout, cursor_position, viewport, &self.elements)
\* The grid hands the renderer its whole element list; the other arguments are
\* the caller's, passed through.
draw(elems) == [elements |-> elems]

\* A layout tree the host hands in that no pass over this grid produced:
\* m child nodes.
HostLayout(m) ==
    NodeWithChildren(SizeZERO, [i \in 1..m |-> NodeAt(SizeZERO, 0, 0)], <<>>)

OnEvent ==
    \E limits \in AllLimits :
        LET lay == layout(strategy, elements, limits)
        IN  /\ call' = [op |-> "on_event", layout |-> lay, fresh |-> TRUE]
            /\ ret' = on_event(elements, lay)
            /\ UNCHANGED <<strategy, elements, ctor, pushed>>

OnEventHostLayout ==
    \E m \in 0..(MaxElems + 1) :
        LET lay == HostLayout(m)
        IN  /\ call' = [op |-> "on_event", layout |-> lay, fresh |-> FALSE]
            /\ ret' = on_event(elements, lay)
            /\ UNCHANGED <<strategy, elements, ctor, pushed>>

Draw ==
    /\ call' = [op |-> "draw"]
    /\ ret' = draw(elements)
    /\ UNCHANGED <<strategy, elements, ctor, pushed>>

HashLayout ==
    /\ call' = [op |-> "hash_layout"]
    /\ ret' = hash_layout(strategy, elements)
    /\ UNCHANGED <<strategy, elements, ctor, pushed>>

\* Construction, appends and the layout / draw / hash passes, over children
\* of every size.
Next ==
    \/ Push(SizedElements)
    \/ Insert(SizedElements)
    \/ Layout
    \/ Draw
    \/ HashLayout

Spec == Init /\ [][Next]_vars

\* Construction, appends and event forwarding, over children of one size
\* that differ in what they report for an event.
NextEvent ==
    \/ Push(EventElements)
    \/ Insert(EventElements)
    \/ OnEvent
    \/ OnEventHostLayout

SpecEvent == Init /\ [][NextEvent]_vars

\* ============================================================== properties
\* What the properties are stated in: the grid the last call ran on, and
\* sums and maxima written out over index sets.
K == Len(elements)
IsLayout == call.op = "layout"
IsOnEvent == call.op = "on_event"
Avail == call.limits.maxw

\* The natural size of child i (0-based): what it reports for the limits
\* the pass was given.
NatW(i) == ElementLayout(elements[i + 1], call.limits).w
NatH(i) == ElementLayout(elements[i + 1], call.limits).h

SetMax(S) == CHOOSE m \in S : \A x \in S : x <= m

RECURSIVE SumOver(_, _)
\* The sum of f over the finite index set S.
SumOver(S, f) ==
    IF S = {} THEN 0
    ELSE LET x == CHOOSE y \in S : TRUE IN f[x] + SumOver(S \ {x}, f)

\* With n columns: the width of column c and the height of row r.
RefColumnWidth(n, c) == SetMax({NatW(j) : j \in {i \in 0..(K - 1) : i % n = c}})
RefRowHeight(n, r) == SetMax({NatH(j) : j \in {i \in 0..(K - 1) : i \div n = r}})
RefRows(n) == (K + n - 1) \div n
\* The left edge of column c under the Columns strategy, the top edge of row r.
RefColumnX(n, c) == SumOver(0..(c - 1), [d \in 0..(c - 1) |-> RefColumnWidth(n, d)])
RefRowY(n, r) == SumOver(0..(r - 1), [q \in 0..(r - 1) |-> RefRowHeight(n, q)])

ColumnsCase == IsLayout /\ strategy.tag = "Columns" /\ strategy.n > 0 /\ K >= 1

\* C1: under Columns(n), n > 0, with k >= 1 elements, layout returns k child
\* nodes in element order; child i has its natural size and sits at
\* x = the summed widths of the columns left of column i mod n and
\* y = the summed heights of the rows above row i div n, a column being as
\* wide as its widest child and a row as high as its highest.
C1_ColumnsPlacement ==
    ColumnsCase =>
        /\ Len(ret.children) = K
        /\ \A i \in 0..(K - 1) :
            LET node == ret.children[i + 1]
                n == strategy.n
            IN  /\ node.w = NatW(i)
                /\ node.h = NatH(i)
                /\ node.x = RefColumnX(n, i % n)
                /\ node.y = RefRowY(n, i \div n)

\* Two columns, three children: the first column is widened by the child
\* of the partial second row, which is placed below the higher child of
\* the first row.
C1_Witness ==
    /\ ColumnsCase
    /\ strategy.n = 2
    /\ K = 3
    /\ NatW(0) < NatW(2)
    /\ NatH(0) < NatH(1)
    /\ ret.children[2].x = NatW(2)
    /\ ret.children[3].y = NatH(1)

\* C2: under Columns(n), n > 0, with k >= 1 elements, the root is as wide as
\* the min(n, k) touched columns together and as high as all ceil(k / n)
\* rows together, a partial last row included.
C2_ColumnsRootSize ==
    ColumnsCase =>
        LET n == strategy.n
            touched == Min(n, K)
        IN  /\ ret.size.w =
                 SumOver(0..(touched - 1),
                         [c \in 0..(touched - 1) |-> RefColumnWidth(n, c)])
            /\ ret.size.h =
                 SumOver(0..(RefRows(n) - 1),
                         [r \in 0..(RefRows(n) - 1) |-> RefRowHeight(n, r)])

C2_Witness ==
    /\ ColumnsCase
    /\ strategy.n = 2
    /\ K = 3
    /\ NatH(2) > 0
    /\ NatW(0) > NatW(1)
    /\ ret.size.h = NatH(0) + NatH(2)
    /\ ret.size.w = NatW(0) + NatW(1)

\* The degenerate cases: no elements, Columns(0), or a ColumnWidth(w) that
\* the available width is too narrow for.
Degenerate ==
    \/ K = 0
    \/ strategy.tag = "Columns" /\ strategy.n = 0
    \/ strategy.tag = "ColumnWidth" /\ Avail < strategy.w

Childless(node) == node.size = SizeZERO /\ node.children = <<>>

C3_DegenerateState == (IsLayout /\ Degenerate) => Childless(ret)

C3_Repeat ==
    (/\ IsLayout /\ Degenerate
     /\ call'.op = "layout" /\ call'.limits = call.limits
     /\ strategy' = strategy /\ elements' = elements) => ret' = ret

\* C3: layout returns a root of size (0, 0) without child nodes when the
\* element list is empty, when the strategy is Columns(0), and when the
\* strategy is ColumnWidth(w) with available width < w; and a layout pass
\* repeated on the same grid and limits returns the same.
C3_DegenerateLayout == [](C3_DegenerateState) /\ [][C3_Repeat]_vars

\* A non-empty grid too narrow for a single column.
C3_Witness ==
    /\ IsLayout
    /\ K = 2
    /\ strategy.tag = "ColumnWidth"
    /\ 0 < Avail
    /\ Avail < strategy.w
    /\ elements[1].w > 0
    /\ elements[1].h > 0
    /\ Childless(ret)

ColumnWidthCase == IsLayout /\ strategy.tag = "ColumnWidth" /\ K >= 1

\* floor(a / w) for w > 0, by its defining inequalities.
RefFloorDiv(a, w) == CHOOSE c \in 0..a : c * w <= a /\ a < (c + 1) * w

C4_WitnessWrap ==
    /\ ColumnWidthCase
    /\ strategy.w = 1
    /\ Avail = 2
    /\ K = 3
    /\ ret.children[2].x = 1
    /\ ret.children[3].x = 0
    /\ ret.children[3].y > 0

ZeroArgument ==
    \/ ctor = Columns(0)
    \/ ctor = ColumnWidth(0)

\* A layout tree: a size and positioned child nodes, all numbers defined.
WellFormedNode(node) ==
    /\ node.size.w \in Nat /\ node.size.h \in Nat
    /\ \A j \in 1..Len(node.children) :
         /\ node.children[j].x \in Nat /\ node.children[j].y \in Nat
         /\ node.children[j].w \in Nat /\ node.children[j].h \in Nat

\* C8: a grid built with with_columns(0) or with_column_width(0), holding
\* any number of elements, laid out against any limits: the pass returns a
\* layout tree whose root width is 0.
C8_ZeroArgument ==
    (IsLayout /\ ZeroArgument) => (WellFormedNode(ret) /\ ret.size.w = 0)

\* Column width 0 and room to spare: the column count is cast from +inf,
\* the children are placed, the root is 0 wide.
C8_Witness ==
    /\ IsLayout
    /\ ctor = ColumnWidth(0)
    /\ Avail > 0
    /\ K = 2
    /\ Len(ret.children) = 2
    /\ elements[1].w > 0
    /\ ret.size.w = 0

\* The column count a layout pass works with.
ColumnCount ==
    IF strategy.tag = "Columns" THEN strategy.n
    ELSE IF strategy.w = 0 THEN (IF Avail = 0 THEN 0 ELSE UsizeMax)
    ELSE RefFloorDiv(Avail, strategy.w)

\* The precondition of C10: a positive column count and, under
\* ColumnWidth(w), no child measured wider than w (sizes are >= 0
\* throughout).
C10_Case ==
    /\ IsLayout
    /\ K >= 1
    /\ ColumnCount > 0
    /\ strategy.tag = "ColumnWidth" => \A i \in 0..(K - 1) : NatW(i) <= strategy.w

\* C10: in a layout with a positive column count every child rectangle lies
\* inside the root rectangle, children of one row lie side by side in
\* element order and children of different rows lie one below the other,
\* so no two child rectangles overlap in their interiors.
C10_InsideAndDisjoint ==
    C10_Case =>
        /\ Len(ret.children) = K
        /\ \A i \in 1..K :
             LET a == ret.children[i]
             IN  /\ 0 <= a.x /\ a.x + a.w <= ret.size.w
                 /\ 0 <= a.y /\ a.y + a.h <= ret.size.h
        /\ \A i, j \in 1..K :
             i < j =>
                 LET a == ret.children[i]
                     b == ret.children[j]
                     sameRow == (i - 1) \div ColumnCount = (j - 1) \div ColumnCount
                 IN  /\ sameRow => a.x + a.w <= b.x
                     /\ ~sameRow => a.y + a.h <= b.y
                     /\ ~(/\ a.x < b.x + b.w /\ b.x < a.x + a.w
                          /\ a.y < b.y + b.h /\ b.y < a.y + a.h)

\* Two rows of non-empty rectangles, the first row holding two of them.
C10_Witness ==
    /\ C10_Case
    /\ K = 3
    /\ ColumnCount = 2
    /\ \A i \in 1..3 : ret.children[i].w > 0 /\ ret.children[i].h > 0

UpTo(n) == [i \in 1..n |-> i]
LayoutChildren == Len(call.layout.children)

\* C5: on_event with a layout that has one child node per element: every
\* child receives the event exactly once, in element order, whatever the
\* children before it reported, and the status returned is captured exactly
\* when some child reported captured, and ignored otherwise.
C5_EveryChildOnce ==
    (IsOnEvent /\ LayoutChildren = K) =>
        /\ ret.received = UpTo(K)
        /\ ret.status = Captured <=> \E i \in 1..K : elements[i].cap
        /\ ret.status = Ignored <=> \A i \in 1..K : ~elements[i].cap

\* The first child captures, two more follow and still receive the event.
C5_Witness ==
    /\ IsOnEvent
    /\ call.fresh
    /\ K = 3
    /\ LayoutChildren = 3
    /\ elements[1].cap
    /\ ~elements[2].cap
    /\ ~elements[3].cap
    /\ ret.received = <<1, 2, 3>>
    /\ ret.status = Captured

\* C9: on_event pairs child i with the i-th child node of the layout and
\* stops at the shorter sequence: the first min(#elements, #child nodes)
\* children receive the event, once each and in order, and nobody else.
\* After a layout pass that returned a childless layout for a grid with
\* elements, no child receives the event and the status is ignored.
C9_StopsAtShorter ==
    IsOnEvent =>
        /\ ret.received = UpTo(Min(K, LayoutChildren))
        /\ ret.status = Captured <=>
               \E i \in 1..Min(K, LayoutChildren) : elements[i].cap
        /\ (call.fresh /\ LayoutChildren = 0 /\ K > 0) =>
               (ret.received = <<>> /\ ret.status = Ignored)

\* A layout shorter than the element list: the child left out would have
\* captured.
C9_Witness ==
    /\ IsOnEvent
    /\ ~call.fresh
    /\ K = 3
    /\ LayoutChildren = 2
    /\ elements[3].cap
    /\ ret.received = <<1, 2>>
    /\ ret.status = Ignored

\* A childless layout pass over a grid whose only child would capture.
C9_WitnessChildless ==
    /\ IsOnEvent
    /\ call.fresh
    /\ K > 0
    /\ LayoutChildren = 0
    /\ \E i \in 1..K : elements[i].cap
    /\ ret.status = Ignored

\* What a layout pass shows of a grid: the root size and the child nodes.
Rendered(strat, elems, limits) ==
    LET node == layout(strat, elems, limits)
    IN  [size |-> node.size, children |-> node.children]

RECURSIVE SeqsUpTo(_, _)
\* The sequences over S of length at most n.
SeqsUpTo(S, n) ==
    IF n = 0 THEN {<<>>}
    ELSE LET shorter == SeqsUpTo(S, n - 1)
         IN  shorter \cup {Append(q, e) : q \in {t \in shorter : Len(t) = n - 1}, e \in S}

\* C6: the grid's hash contribution is the type marker followed by the
\* children's contributions in element order; a grid with the same strategy
\* and child hashes contributes the same; and any grid that, against the
\* same limits, is laid out differently (other children, another strategy,
\* column count or column width) contributes differently.
C6_HashTracksLayout ==
    call.op = "hash_layout" =>
        /\ ret = <<"Marker">> \o [i \in 1..K |-> ChildHash(elements[i])]
        /\ \A strat2 \in Strategies, elems2 \in SeqsUpTo(SizedElements, MaxElems) :
             /\ (strat2 = strategy /\ elems2 = elements) =>
                    hash_layout(strat2, elems2) = ret
             /\ (\E limits \in AllLimits :
                    Rendered(strat2, elems2, limits) # Rendered(strategy, elements, limits))
                  => hash_layout(strat2, elems2) # ret

\* C7: after the constructor and any pushes and inserts the strategy is the
\* constructor's and the element list is the pushed / inserted elements in
\* call order, duplicates kept; layout, draw and hash_layout change neither.
C7_AppendOnly ==
    /\ strategy = ctor
    /\ elements = pushed
    /\ Len(elements) = Len(pushed)

\* Three appends, two of them of the same element, then a read-only pass.
C7_Witness ==
    /\ call.op \in {"layout", "draw", "hash_layout"}
    /\ Len(pushed) = 3
    /\ pushed[1] = pushed[2]
    /\ pushed[2] # pushed[3]
    /\ elements = pushed
====
